---------------------------- MODULE Spec2Model ----------------------------
(***************************************************************************)
(* Model of skills/icon-generator/scripts/generate_icons.py.               *)
(*                                                                         *)
(* Strings are sequences of one-character strings.  Images are terms that  *)
(* record their dimensions and how their pixels were produced, so that the *)
(* alpha of any pixel can be computed (AlphaAt); image objects live in a   *)
(* heap keyed by object identity, so that "returns the input itself" and   *)
(* in-place mutation (Image.alpha_composite) are observable.               *)
(***************************************************************************)
EXTENDS Integers, Sequences, FiniteSets, TLC

VARIABLES
    pc,          \* position of main (line about to execute), or "exit"/"idle"
    argv,        \* the parsed command line (argparse namespace), before validation
    env,         \* what the run finds: the input file, cairosvg, the --out tree
    loop_i,      \* index into mac_entries while in the loop of line 196, else 0
    fs,          \* files under --out: path -> [fmt, sizes, from, by]
    dirs,        \* directories that exist (paths are sequences of components)
    heap,        \* image objects: id -> image term
    src,         \* id of the loaded image (0: not loaded)
    src_square,  \* id of the square-normalised image (0: not derived)
    bg,          \* result of _parse_hex_color at line 261 (<<>>: not parsed)
    targets,     \* result of _parse_targets at line 240
    exit_code,   \* -1 while running, else the process exit status
    written,     \* paths written by this run, in order
    maskable,    \* <<canvas>> returned by _fit_with_padding at line 163, else <<>>
    nsquare,     \* number of _ensure_square calls made by this run
    failed_at,   \* the pc at which the run failed ("" when none)
    call,        \* single-function specifications: the arguments
    ret          \* single-function specifications: <<result>> once returned

vars == <<pc, argv, env, loop_i, fs, dirs, heap, src, src_square, bg, targets, exit_code,
          written, maskable, nsquare, failed_at, call, ret>>

mainvars == <<pc, argv, env, loop_i, fs, dirs, heap, src, src_square, bg, targets, exit_code,
              written, maskable, nsquare, failed_at>>

----------------------------------------------------------------------------
(* Small arithmetic helpers                                                *)

Min(a, b) == IF a <= b THEN a ELSE b

Max(a, b) == IF a >= b THEN a ELSE b

\* Python's a // b for b > 0 (floor division; \div is floor division in TLA+)
FloorDiv(a, b) == a \div b

\* Python's round(n / d) for d > 0: round half to even
RoundHalfEven(n, d) ==
    LET q == n \div d
        r == n % d
    IN  IF 2 * r < d THEN q
        ELSE IF 2 * r > d THEN q + 1
        ELSE IF q % 2 = 0 THEN q ELSE q + 1

----------------------------------------------------------------------------
(* Strings: str.strip, str.lstrip, int(s, 16)                              *)

Whitespace == {" "}

HexDigits == {"0","1","2","3","4","5","6","7","8","9",
              "a","b","c","d","e","f","A","B","C","D","E","F"}

HexVal(c) ==
    CASE c = "0" -> 0 [] c = "1" -> 1 [] c = "2" -> 2 [] c = "3" -> 3
      [] c = "4" -> 4 [] c = "5" -> 5 [] c = "6" -> 6 [] c = "7" -> 7
      [] c = "8" -> 8 [] c = "9" -> 9
      [] c \in {"a","A"} -> 10 [] c \in {"b","B"} -> 11
      [] c \in {"c","C"} -> 12 [] c \in {"d","D"} -> 13
      [] c \in {"e","E"} -> 14 [] c \in {"f","F"} -> 15

RECURSIVE LStripSet(_, _)
\* s.lstrip(chars): drop every leading character that is in chars
LStripSet(s, chars) ==
    IF s # <<>> /\ Head(s) \in chars THEN LStripSet(Tail(s), chars) ELSE s

RECURSIVE RStripSet(_, _)
RStripSet(s, chars) ==
    IF s # <<>> /\ s[Len(s)] \in chars
    THEN RStripSet(SubSeq(s, 1, Len(s) - 1), chars) ELSE s

\* s.strip(): drop leading and trailing whitespace
Strip(s) == RStripSet(LStripSet(s, Whitespace), Whitespace)

RECURSIVE HexFold(_, _)
HexFold(s, acc) ==
    IF s = <<>> THEN acc
    ELSE IF Head(s) = "_" THEN HexFold(Tail(s), acc)
    ELSE HexFold(Tail(s), 16 * acc + HexVal(Head(s)))

\* the digits of int(s, 16) once sign and prefix are gone: hex digits that
\* may be grouped by single underscores
ValidDigits(d) ==
    /\ d # <<>>
    /\ \A i \in 1..Len(d) : d[i] \in HexDigits \cup {"_"}
    /\ d[1] # "_" /\ d[Len(d)] # "_"
    /\ \A i \in 1..(Len(d) - 1) : ~(d[i] = "_" /\ d[i + 1] = "_")

IntOfDigits(d, neg) ==
    IF ValidDigits(d)
    THEN [ok |-> TRUE, val |-> IF neg THEN 0 - HexFold(d, 0) ELSE HexFold(d, 0)]
    ELSE [ok |-> FALSE, val |-> 0]

\* an optional 0x/0X prefix, after which one underscore may precede the digits
DropPrefix(u) ==
    IF Len(u) >= 2 /\ u[1] = "0" /\ u[2] \in {"x", "X"}
    THEN IF Len(u) >= 3 /\ u[3] = "_" THEN SubSeq(u, 4, Len(u))
         ELSE SubSeq(u, 3, Len(u))
    ELSE u

IntOfStripped(t) ==
    IntOfDigits(DropPrefix(IF t # <<>> /\ t[1] \in {"+", "-"} THEN Tail(t) ELSE t),
                t # <<>> /\ t[1] = "-")

\* Python's int(s, 16): surrounding whitespace is ignored, one sign is
\* accepted, an optional 0x/0X prefix, then the digits.  [ok, val];
\* ok = FALSE stands for ValueError.
PyIntBase16(s) == IntOfStripped(Strip(s))

\* v[a:b] for 0 <= a <= b (Python slice, clipped to the string)
Slice(v, a, b) == SubSeq(v, a + 1, Min(b, Len(v)))

----------------------------------------------------------------------------
(* _parse_hex_color (lines 55-68).  [ok, rgba]; ok = FALSE is ValueError.  *)

ColorError == [ok |-> FALSE, rgba |-> <<>>]

\* the tuple built from the int() results, unless one of them raised
ColorOf(r, g, b, a) ==
    IF r.ok /\ g.ok /\ b.ok /\ a.ok
    THEN [ok |-> TRUE, rgba |-> <<r.val, g.val, b.val, a.val>>]
    ELSE ColorError

\* lines 57-68, on v = value.strip().lstrip("#")
ParseStripped(v) ==
    IF Len(v) = 6
    THEN ColorOf(PyIntBase16(Slice(v, 0, 2)), PyIntBase16(Slice(v, 2, 4)),
                 PyIntBase16(Slice(v, 4, 6)), [ok |-> TRUE, val |-> 255])
    ELSE IF Len(v) = 8
    THEN ColorOf(PyIntBase16(Slice(v, 0, 2)), PyIntBase16(Slice(v, 2, 4)),
                 PyIntBase16(Slice(v, 4, 6)), PyIntBase16(Slice(v, 6, 8)))
    ELSE ColorError

_parse_hex_color(value) == ParseStripped(LStripSet(Strip(value), {"#"}))

----------------------------------------------------------------------------
(* Images.  A term [w, h, kind, pat, fill, x, y, sub]:                     *)
(*   kind "pat"  : decoded or resampled pixels following pattern pat       *)
(*   kind "fill" : Image.new("RGBA", (w, h), fill)                         *)
(*   kind "crop" : sub[1].crop((x, y, x + w, y + h))                       *)
(*   kind "comp" : sub[1] after sub[1].alpha_composite(sub[2], (x, y))     *)

Patterns == {"clear", "half", "opaque", "ring"}

\* alpha of pixel (i, j), 0-based, of a w x h raster following pattern p;
\* "ring" has a fully transparent border around an opaque interior
PatAlpha(p, w, h, i, j) ==
    CASE p = "clear"  -> 0
      [] p = "half"   -> 128
      [] p = "opaque" -> 255
      [] p = "ring"   -> IF i = 0 \/ j = 0 \/ i = w - 1 \/ j = h - 1 THEN 0 ELSE 255

PatImg(w, h, p) ==
    [w |-> w, h |-> h, kind |-> "pat", pat |-> p, fill |-> <<>>,
     x |-> 0, y |-> 0, sub |-> <<>>]

\* Image.new("RGBA", (w, h), rgba)
ImageNew(w, h, rgba) ==
    [w |-> w, h |-> h, kind |-> "fill", pat |-> "", fill |-> rgba,
     x |-> 0, y |-> 0, sub |-> <<>>]

\* img.crop((left, top, right, bottom)): a new image
ImageCrop(img, left, top, right, bottom) ==
    [w |-> right - left, h |-> bottom - top, kind |-> "crop", pat |-> "",
     fill |-> <<>>, x |-> left, y |-> top, sub |-> <<img>>]

\* the pixels of dst after dst.alpha_composite(top, (x, y))
Composited(dst, top, x, y) ==
    [w |-> dst.w, h |-> dst.h, kind |-> "comp", pat |-> "", fill |-> <<>>,
     x |-> x, y |-> y, sub |-> <<dst, top>>]

\* Pillow's "over" operator on the alpha channel
\* (AlphaComposite.c: SHIFTFORDIV255(src.a * 255 + dst.a * (255 - src.a) + 0x80))
ShiftForDiv255(a) == ((a \div 256) + a) \div 256

\* faulty variant: paste() instead of alpha_composite(): the source alpha overwrites
OverPlainPaste(srcA, dstA) == srcA

Over(srcA, dstA) ==
    IF srcA = 0 THEN dstA
    ELSE ShiftForDiv255(srcA * 255 + dstA * (255 - srcA) + 128)

RECURSIVE AlphaAt(_, _, _)
AlphaAt(img, i, j) ==
    CASE img.kind = "pat"  -> PatAlpha(img.pat, img.w, img.h, i, j)
      [] img.kind = "fill" -> img.fill[4]
      [] img.kind = "crop" -> AlphaAt(img.sub[1], i + img.x, j + img.y)
      [] img.kind = "comp" ->
            LET dst == img.sub[1]
                top == img.sub[2]
                inside == /\ img.x <= i /\ i < img.x + top.w
                          /\ img.y <= j /\ j < img.y + top.h
            IN  IF inside
                THEN Over(AlphaAt(top, i - img.x, j - img.y), AlphaAt(dst, i, j))
                ELSE AlphaAt(dst, i, j)

----------------------------------------------------------------------------
(* The heap of image objects                                               *)

NoHeap == [i \in {} |-> 0]

NextId(h) == IF DOMAIN h = {} THEN 1
             ELSE (CHOOSE m \in DOMAIN h : \A k \in DOMAIN h : k <= m) + 1

\* a newly constructed image object: [heap, id]
Alloc(h, img) == [heap |-> h @@ (NextId(h) :> img), id |-> NextId(h)]

\* dst.alpha_composite(src, (x, y)): mutates the object dstId in place
AlphaComposite(h, dstId, srcId, x, y) ==
    [h EXCEPT ![dstId] = Composited(h[dstId], h[srcId], x, y)]

----------------------------------------------------------------------------
(* _ensure_square (lines 92-106): [heap, id]                               *)

\* faulty variant: the crop policy is ignored and the image is always padded
_ensure_square_never_crops(h, imgId, pad_to_square, background_rgba) ==
    LET img    == h[imgId]
        side   == Max(img.w, img.h)
        canvas == Alloc(h, ImageNew(side, side, background_rgba))
    IN  IF img.w = img.h THEN [heap |-> h, id |-> imgId]
        ELSE [heap |-> AlphaComposite(canvas.heap, canvas.id, imgId,
                                      (side - img.w) \div 2, (side - img.h) \div 2),
              id |-> canvas.id]

_ensure_square(h, imgId, pad_to_square, background_rgba) ==
    LET img == h[imgId]
        w   == img.w
        hh  == img.h
    IN  IF w = hh THEN [heap |-> h, id |-> imgId]
        ELSE IF ~pad_to_square
        THEN LET side == Min(w, hh)
                 left == FloorDiv(w - side, 2)
                 top  == FloorDiv(hh - side, 2)
             IN  Alloc(h, ImageCrop(img, left, top, left + side, top + side))
        ELSE LET side   == Max(w, hh)
                 canvas == Alloc(h, ImageNew(side, side, background_rgba))
                 x      == FloorDiv(side - w, 2)
                 y      == FloorDiv(side - hh, 2)
             IN  [heap |-> AlphaComposite(canvas.heap, canvas.id, imgId, x, y),
                  id |-> canvas.id]

----------------------------------------------------------------------------
(* _resize (lines 109-112): [heap, id].  img.resize builds a new image; its *)
(* pixels are whatever the resampling filter yields, here any pattern.     *)

ResampleResults(size) == {PatImg(size, size, p) : p \in Patterns}

\* faulty variant: the size test is inverted and no resampling ever happens
_resize_never(h, imgId, size, out) == [heap |-> h, id |-> imgId]

\* faulty variant: the image is resized in place (as Image.thumbnail does)
_resize_in_place(h, imgId, size, out) ==
    [heap |-> [h EXCEPT ![imgId] = out], id |-> imgId]

_resize(h, imgId, size, out) ==
    IF h[imgId].w = size /\ h[imgId].h = size
    THEN [heap |-> h, id |-> imgId]
    ELSE Alloc(h, out)

----------------------------------------------------------------------------
(* _fit_with_padding (lines 115-131): [heap, id, inner, x, y].             *)
(* content_scale is in thousandths.                                        *)

\* faulty variant: content_scale is used without the clamp of line 123
ClampScale_unclamped(content_scale) == content_scale

ClampScale(content_scale) == Max(100, Min(content_scale, 1000))

InnerSize(size, content_scale) ==
    Max(1, Min(RoundHalfEven(size * ClampScale(content_scale), 1000), size))

_fit_with_padding(h, imgId, size, content_scale, background_rgba, out) ==
    LET inner     == InnerSize(size, content_scale)
        inner_img == _resize(h, imgId, inner, out)
        canvas    == Alloc(inner_img.heap, ImageNew(size, size, background_rgba))
        x         == FloorDiv(size - inner, 2)
        y         == FloorDiv(size - inner, 2)
    IN  [heap  |-> AlphaComposite(canvas.heap, canvas.id, inner_img.id, x, y),
         id    |-> canvas.id,
         inner |-> inner, x |-> x, y |-> y]

----------------------------------------------------------------------------
(* _parse_targets (lines 204-210): [ok, targets]; ok = FALSE is ValueError *)

UpperLetters == <<"A","B","C","D","E","F","G","H","I","J","K","L","M",
                  "N","O","P","Q","R","S","T","U","V","W","X","Y","Z">>

LowerLetters == <<"a","b","c","d","e","f","g","h","i","j","k","l","m",
                  "n","o","p","q","r","s","t","u","v","w","x","y","z">>

LowerChar(c) ==
    IF \E i \in 1..26 : UpperLetters[i] = c
    THEN LowerLetters[CHOOSE i \in 1..26 : UpperLetters[i] = c]
    ELSE c

\* s.lower()
LowerStr(s) == [i \in 1..Len(s) |-> LowerChar(s[i])]

RECURSIVE SplitAcc(_, _, _, _)
SplitAcc(s, sep, cur, acc) ==
    IF s = <<>> THEN Append(acc, cur)
    ELSE IF Head(s) = sep THEN SplitAcc(Tail(s), sep, <<>>, Append(acc, cur))
    ELSE SplitAcc(Tail(s), sep, Append(cur, Head(s)), acc)

\* s.split(sep)
Split(s, sep) == SplitAcc(s, sep, <<>>, <<>>)

S_web == <<"w","e","b">>

S_ue == <<"u","e">>

allowed == {S_web, S_ue}

\* faulty variant: unknown names are dropped silently instead of raising
_parse_targets_drops_unknown(value) ==
    LET parts == Split(value, ",")
        names == {LowerStr(Strip(parts[i])) :
                     i \in {k \in 1..Len(parts) : Strip(parts[k]) # <<>>}}
    IN  [ok |-> TRUE, targets |-> names \cap allowed]

_parse_targets(value) ==
    LET parts   == Split(value, ",")
        names   == {LowerStr(Strip(parts[i])) :
                       i \in {k \in 1..Len(parts) : Strip(parts[k]) # <<>>}}
        unknown == names \ allowed
    IN  IF unknown # {} THEN [ok |-> FALSE, targets |-> {}]
        ELSE [ok |-> TRUE, targets |-> names]

----------------------------------------------------------------------------
(* _is_svg, _load_image (lines 71-89): [ok, img]; ok = FALSE is SystemExit *)
(* (no cairosvg) or the decoder's exception                                *)

_is_svg(suffix) == LowerStr(suffix) = <<".","s","v","g">>

_load_image(file, cairosvg) ==
    IF _is_svg(file.suffix) /\ ~cairosvg THEN [ok |-> FALSE, img |-> <<>>]
    ELSE IF ~file.decodes THEN [ok |-> FALSE, img |-> <<>>]
    ELSE [ok |-> TRUE, img |-> <<PatImg(file.w, file.h, file.pat)>>]

----------------------------------------------------------------------------
(* The --out tree.  Paths are sequences of components relative to --out;   *)
(* <<>> is the --out directory itself.                                     *)

NoFiles == [q \in {} |-> 0]

\* path.parent.mkdir(parents=True, exist_ok=True)
MkParents(d, path) == d \cup {SubSeq(path, 1, k) : k \in 0..(Len(path) - 1)}

\* open(path, "wb") and write: replaces whatever was at path
PutFile(f, path, content) ==
    [q \in DOMAIN f \cup {path} |-> IF q = path THEN content ELSE f[q]]

\* _write_png (lines 134-136): [fs, dirs]
_write_png(f, d, h, imgId, path) ==
    [fs   |-> PutFile(f, path, [fmt |-> "PNG", sizes |-> {h[imgId].w},
                                square |-> h[imgId].w = h[imgId].h,
                                from |-> imgId, by |-> "run"]),
     dirs |-> MkParents(d, path)]

SeqMax(sizes) == CHOOSE m \in {sizes[i] : i \in 1..Len(sizes)} :
                    \A i \in 1..Len(sizes) : sizes[i] <= m

\* _write_ico (lines 139-146): [fs, dirs, heap]
_write_ico(f, d, h, source_square, path, sizes, out) ==
    LET max_size == SeqMax(sizes)
        base     == _resize(h, source_square, max_size, out)
    IN  [fs   |-> PutFile(f, path, [fmt |-> "ICO",
                                    sizes |-> {sizes[i] : i \in 1..Len(sizes)},
                                    square |-> TRUE,
                                    from |-> source_square, by |-> "run"]),
         dirs |-> MkParents(d, path),
         heap |-> base.heap]

\* objects still referenced once a statement of main has completed
Collect(h, keep) == [i \in DOMAIN h \cap keep |-> h[i]]

----------------------------------------------------------------------------
(* Single-function specifications: the arguments are drawn in Init and one *)
(* action applies the function.  main is idle in them.                     *)

MainIdle ==
    /\ pc = "idle" /\ argv = <<>> /\ env = <<>> /\ loop_i = 0 /\ fs = <<>> /\ dirs = {} /\ heap = NoHeap
    /\ src = 0 /\ src_square = 0 /\ bg = <<>> /\ targets = {} /\ exit_code = -1
    /\ written = <<>> /\ maskable = <<>> /\ nsquare = 0 /\ failed_at = ""

\* ---- _parse_hex_color ----

MaxPairs == 4

\* two-character groups: plain hex, upper case, signed, padded, non-hex,
\* underscore
ColorPairs == {<<"f","f">>, <<"0","A">>, <<"+","f">>, <<"-","1">>,
               <<" ","1">>, <<"g","0">>, <<"1","_">>}

ColorPrefixes == {<<>>, <<"#">>, <<" ","#","#">>}

ColorTails == {<<>>, <<"7">>}

RECURSIVE PairSeqs(_)
PairSeqs(n) ==
    IF n = 0 THEN {<<>>}
    ELSE {s \o q : s \in PairSeqs(n - 1), q \in ColorPairs}

ColorInputs ==
    {pre \o body \o tail :
        pre \in ColorPrefixes,
        body \in UNION {PairSeqs(n) : n \in 0..MaxPairs},
        tail \in ColorTails}

InitColor ==
    /\ MainIdle
    /\ call \in {[fn |-> "_parse_hex_color", value |-> v] : v \in ColorInputs}
    /\ ret = <<>>

CallParseHexColor ==
    /\ call.fn = "_parse_hex_color" /\ ret = <<>>
    /\ ret' = <<_parse_hex_color(call.value)>>
    /\ UNCHANGED <<mainvars, call>>

SpecColor == InitColor /\ [][CallParseHexColor]_vars

\* ---- _ensure_square ----

MaxDim == 5

Backgrounds == {<<0, 0, 0, 255>>, <<0, 0, 0, 0>>, <<255, 255, 255, 128>>}

InitSquare ==
    /\ MainIdle
    /\ call \in {[fn |-> "_ensure_square", heap |-> (1 :> PatImg(w, h, p)), id |-> 1,
                  pad_to_square |-> pad, background_rgba |-> c] :
                    w \in 1..MaxDim, h \in 1..MaxDim, p \in Patterns,
                    pad \in BOOLEAN, c \in Backgrounds}
    /\ ret = <<>>

CallEnsureSquare ==
    /\ call.fn = "_ensure_square" /\ ret = <<>>
    /\ ret' = <<_ensure_square(call.heap, call.id, call.pad_to_square,
                               call.background_rgba)>>
    /\ UNCHANGED <<mainvars, call>>

SpecSquare == InitSquare /\ [][CallEnsureSquare]_vars

\* ---- _fit_with_padding ----

MaxCanvas == 4

\* content_scale values in thousandths: negative, below the clamp, the clamp
\* bounds, ties of round(), just below 1.0, above 1.0
Scales == {-500, 50, 100, 125, 375, 500, 625, 800, 999, 1000, 2000}

InitFit ==
    /\ MainIdle
    /\ call \in {[fn |-> "_fit_with_padding", heap |-> (1 :> PatImg(w, h, p)), id |-> 1,
                  size |-> n, content_scale |-> k, background_rgba |-> c] :
                    w \in 1..MaxCanvas, h \in 1..MaxCanvas, p \in Patterns,
                    n \in 1..MaxCanvas, k \in Scales, c \in Backgrounds}
    /\ ret = <<>>

CallFitWithPadding ==
    /\ call.fn = "_fit_with_padding" /\ ret = <<>>
    /\ \E out \in ResampleResults(InnerSize(call.size, call.content_scale)) :
         ret' = <<_fit_with_padding(call.heap, call.id, call.size,
                                    call.content_scale, call.background_rgba, out)>>
    /\ UNCHANGED <<mainvars, call>>

SpecFit == InitFit /\ [][CallFitWithPadding]_vars

----------------------------------------------------------------------------
(* Claims about the single functions                                       *)

\* the colour string as _parse_hex_color sees it after strip() and lstrip("#")
StrippedColor == LStripSet(Strip(call.value), {"#"})

HasNonHex(v) == \E i \in 1..Len(v) : v[i] \notin HexDigits

\* C4: _parse_hex_color fails (never returns a colour tuple) for every input
\* whose stripped length is not 6 or 8 and for every input that contains a
\* character that is not a hexadecimal digit.
C4_RejectsNonHex ==
    (call.fn = "_parse_hex_color" /\ ret # <<>>) =>
        ((Len(StrippedColor) \notin {6, 8} \/ HasNonHex(StrippedColor))
            => ~ret[1].ok)

\* the part of C4 the code does satisfy: a wrong length always fails, and a
\* returned tuple comes from a string of 6 or 8 characters
C4_RejectsWrongLength ==
    (call.fn = "_parse_hex_color" /\ ret # <<>>) =>
        (Len(StrippedColor) \notin {6, 8} => ~ret[1].ok)

\* C5: _ensure_square returns a square image: the input object itself when
\* W = H; a min(W,H) crop at offset floor((long - short)/2), inside the
\* source, the odd extra pixel trimmed from the trailing edge, under the
\* crop policy; a max(W,H) canvas with the source at offset
\* floor((side - dim)/2), fully inside the canvas, under the pad policy.
C5_EnsureSquare ==
    (call.fn = "_ensure_square" /\ ret # <<>>) =>
        LET in   == call.heap[call.id]
            r    == ret[1]
            out  == r.heap[r.id]
            lo   == Min(in.w, in.h)
            hi   == Max(in.w, in.h)
        IN  /\ out.w = out.h
            /\ r.heap[call.id] = in
            /\ in.w = in.h => (r.id = call.id /\ r.heap = call.heap)
            /\ (in.w # in.h /\ ~call.pad_to_square) =>
                  /\ out.w = lo /\ r.id # call.id
                  /\ out.kind = "crop" /\ out.sub = <<in>>
                  /\ out.x = (in.w - lo) \div 2 /\ out.y = (in.h - lo) \div 2
                  /\ 0 <= out.x /\ out.x + lo <= in.w
                  /\ 0 <= out.y /\ out.y + lo <= in.h
                  \* leading trim <= trailing trim <= leading trim + 1
                  /\ (in.w - lo - out.x) - out.x \in {0, 1}
                  /\ (in.h - lo - out.y) - out.y \in {0, 1}
            /\ (in.w # in.h /\ call.pad_to_square) =>
                  /\ out.w = hi /\ r.id # call.id
                  /\ out.kind = "comp" /\ out.sub[2] = in
                  /\ out.sub[1] = ImageNew(hi, hi, call.background_rgba)
                  /\ out.x = (hi - in.w) \div 2 /\ out.y = (hi - in.h) \div 2
                  /\ 0 <= out.x /\ out.x + in.w <= hi
                  /\ 0 <= out.y /\ out.y + in.h <= hi

\* a crop with an odd extra pixel, and a pad, have both been computed
C5_Witness ==
    /\ call.fn = "_ensure_square" /\ ret # <<>>
    /\ ~call.pad_to_square
    /\ call.heap[call.id].w = 5 /\ call.heap[call.id].h = 2
    /\ ret[1].heap[ret[1].id].w = 2 /\ ret[1].heap[ret[1].id].x = 1

BorderPixels(n) ==
    {<<i, j>> \in (0..(n - 1)) \X (0..(n - 1)) :
        i = 0 \/ j = 0 \/ i = n - 1 \/ j = n - 1}

\* C6: when the background colour has alpha 255, every border pixel of the
\* canvas returned by _fit_with_padding has alpha 255, whatever the source
\* alpha, the canvas size and the content scale.
C6_OpaqueBorder ==
    (call.fn = "_fit_with_padding" /\ ret # <<>> /\ call.background_rgba[4] = 255) =>
        LET canvas == ret[1].heap[ret[1].id]
        IN  /\ canvas.w = call.size /\ canvas.h = call.size
            /\ \A q \in BorderPixels(call.size) : AlphaAt(canvas, q[1], q[2]) = 255

\* content scale clamps to 1.0, so the content covers the border, and the
\* content's own border is fully transparent
C6_Witness ==
    /\ call.fn = "_fit_with_padding" /\ ret # <<>>
    /\ call.background_rgba[4] = 255
    /\ call.content_scale > 1000 /\ call.size = 3
    /\ ret[1].inner = call.size
    /\ ret[1].heap[ret[1].id].sub[2].pat = "ring"

----------------------------------------------------------------------------
(* main (lines 213-270), generate_web (149-170), generate_ue (173-201).    *)
(* pc names the source line about to execute.                              *)

\* straight-line successor of each statement; the two "if" statements of
\* lines 265 and 267 choose their successor themselves
\* faulty variant: the colour is parsed only inside generate_web, line 261 is skipped
NextPc_LazyColor(p) ==
    CASE p = "L238" -> "L240" [] p = "L240" -> "L262" [] p = "L261" -> "L262"
      [] p = "L262" -> "L263" [] p = "L263" -> "L265"
      [] p = "L157" -> "L158" [] p = "L158" -> "L159" [] p = "L159" -> "L160"
      [] p = "L160" -> "L162" [] p = "L162" -> "L267"
      [] p = "L177" -> "L181" [] p = "L181" -> "L197" [] p = "L197" -> "L200"
      [] p = "L200" -> "L201" [] p = "L201" -> "L270"

NextPc(p) ==
    CASE p = "L238" -> "L240" [] p = "L240" -> "L261" [] p = "L261" -> "L262"
      [] p = "L262" -> "L263" [] p = "L263" -> "L265"
      [] p = "L157" -> "L158" [] p = "L158" -> "L159" [] p = "L159" -> "L160"
      [] p = "L160" -> "L162" [] p = "L162" -> "L267"
      [] p = "L177" -> "L181" [] p = "L181" -> "L197" [] p = "L197" -> "L200"
      [] p = "L200" -> "L201" [] p = "L201" -> "L270"

\* faulty variant: the exception is caught and the run carries on with the next statement
AbortSwallowed(at) ==
    [pc |-> NextPc(at), exit_code |-> -1, failed_at |-> at]

\* an exception (ValueError, OSError, SystemExit with a message) raised at
\* line `at` is caught nowhere: it leaves main and the interpreter exits 1
Abort(at) ==
    [pc |-> "exit", exit_code |-> 1, failed_at |-> at]

Raise(at) ==
    /\ pc' = Abort(at).pc
    /\ exit_code' = Abort(at).exit_code
    /\ failed_at' = Abort(at).failed_at

Goto(p) == pc' = p /\ UNCHANGED <<exit_code, failed_at>>

\* how a statement that touches the file system may end: it succeeds, the
\* directory cannot be created, or the directory is there and the file
\* cannot be written
WriteOutcomes == {"ok", "mkdir_fails", "save_fails"}

\* line 238
MkOutDir ==
    /\ pc = "L238"
    /\ \E outcome \in {"ok", "mkdir_fails"} :
         IF outcome = "ok"
         THEN dirs' = dirs \cup {<<>>} /\ Goto(NextPc("L238"))
         ELSE UNCHANGED dirs /\ Raise("L238")
    /\ UNCHANGED <<argv, env, loop_i, fs, heap, src, src_square, bg, targets,
                   written, maskable, nsquare, call, ret>>

\* line 240
ParseTargets ==
    /\ pc = "L240"
    /\ LET t == _parse_targets(argv.targets)
       IN  IF t.ok THEN targets' = t.targets /\ Goto(NextPc("L240"))
           ELSE UNCHANGED targets /\ Raise("L240")
    /\ UNCHANGED <<argv, env, loop_i, fs, dirs, heap, src, src_square, bg,
                   written, maskable, nsquare, call, ret>>

\* line 261
ParseBackground ==
    /\ pc = "L261"
    /\ LET c == _parse_hex_color(argv.background)
       IN  IF c.ok THEN bg' = c.rgba /\ Goto(NextPc("L261"))
           ELSE UNCHANGED bg /\ Raise("L261")
    /\ UNCHANGED <<argv, env, loop_i, fs, dirs, heap, src, src_square, targets,
                   written, maskable, nsquare, call, ret>>

\* line 262
LoadImage ==
    /\ pc = "L262"
    /\ LET l == _load_image(env.file, env.cairosvg)
       IN  IF l.ok
           THEN /\ heap' = Alloc(heap, l.img[1]).heap
                /\ src' = Alloc(heap, l.img[1]).id
                /\ Goto(NextPc("L262"))
           ELSE UNCHANGED <<heap, src>> /\ Raise("L262")
    /\ UNCHANGED <<argv, env, loop_i, fs, dirs, src_square, bg, targets,
                   written, maskable, nsquare, call, ret>>

\* line 263
EnsureSquare ==
    /\ pc = "L263"
    /\ LET r == _ensure_square(heap, src, ~argv.no_pad, bg)
       IN  /\ heap' = Collect(r.heap, {src, r.id})
           /\ src_square' = r.id
    /\ nsquare' = nsquare + 1
    /\ Goto(NextPc("L263"))
    /\ UNCHANGED <<argv, env, loop_i, fs, dirs, src, bg, targets,
                   written, maskable, call, ret>>

\* line 265
DispatchWeb ==
    /\ pc = "L265"
    /\ Goto(IF S_web \in targets THEN "L157" ELSE "L267")
    /\ UNCHANGED <<argv, env, loop_i, fs, dirs, heap, src, src_square, bg, targets,
                   written, maskable, nsquare, call, ret>>

\* _write_ico(src_square, out / path, sizes) as one statement at line `at`
WriteIcoStep(at, path, sizes) ==
    /\ pc = at
    /\ \E out \in ResampleResults(SeqMax(sizes)), outcome \in WriteOutcomes :
         LET w == _write_ico(fs, dirs, heap, src_square, path, sizes, out)
         IN  /\ heap' = Collect(w.heap, {src, src_square})
             /\ IF outcome = "ok"
                THEN /\ fs' = w.fs /\ dirs' = w.dirs
                     /\ written' = Append(written, path)
                     /\ Goto(NextPc(at))
                ELSE /\ dirs' = IF outcome = "save_fails" THEN w.dirs ELSE dirs
                     /\ UNCHANGED <<fs, written>>
                     /\ Raise(at)

\* _write_png(_resize(src_square, size), out / path) as one statement
WritePngStep(at, path, size, next) ==
    /\ pc = at
    /\ \E out \in ResampleResults(size), outcome \in WriteOutcomes :
         LET r == _resize(heap, src_square, size, out)
             w == _write_png(fs, dirs, r.heap, r.id, path)
         IN  /\ heap' = Collect(r.heap, {src, src_square})
             /\ IF outcome = "ok"
                THEN /\ fs' = w.fs /\ dirs' = w.dirs
                     /\ written' = Append(written, path)
                     /\ Goto(next)
                ELSE /\ dirs' = IF outcome = "save_fails" THEN w.dirs ELSE dirs
                     /\ UNCHANGED <<fs, written>>
                     /\ Raise(at)

\* line 157
WebFavicon ==
    /\ WriteIcoStep("L157", <<"favicon.ico">>, <<16, 32, 48>>)
    /\ UNCHANGED <<argv, env, loop_i, src, src_square, bg, targets,
                   maskable, nsquare, call, ret>>

web_pngs ==
    ("L158" :> [name |-> "apple-touch-icon.png", size |-> 180]) @@
    ("L159" :> [name |-> "icon-192.png", size |-> 192]) @@
    ("L160" :> [name |-> "icon-512.png", size |-> 512])

\* lines 158, 159, 160
WebPng ==
    /\ pc \in DOMAIN web_pngs
    /\ WritePngStep(pc, <<web_pngs[pc].name>>, web_pngs[pc].size, NextPc(pc))
    /\ UNCHANGED <<argv, env, loop_i, src, src_square, bg, targets,
                   maskable, nsquare, call, ret>>

\* lines 162-170 (the results of the calls are bound once, as values)
WebMaskable ==
    /\ pc = "L162"
    /\ \E c \in {_parse_hex_color(argv.background)} :
         IF ~c.ok
         THEN /\ Raise("L162")
              /\ UNCHANGED <<fs, dirs, heap, written, maskable>>
         ELSE \E out \in ResampleResults(InnerSize(512, argv.maskable_scale)),
                 outcome \in WriteOutcomes :
              \E f \in {_fit_with_padding(heap, src_square, 512,
                                          argv.maskable_scale, c.rgba, out)} :
              \E w \in {_write_png(fs, dirs, f.heap, f.id,
                                   <<"icon-maskable-512.png">>)} :
                /\ heap' = Collect(f.heap, {src, src_square})
                /\ maskable' = <<[img |-> f.heap[f.id], inner |-> f.inner,
                                  x |-> f.x, y |-> f.y]>>
                /\ IF outcome = "ok"
                   THEN /\ fs' = w.fs /\ dirs' = w.dirs
                        /\ written' = Append(written, <<"icon-maskable-512.png">>)
                        /\ Goto(NextPc("L162"))
                   ELSE /\ dirs' = IF outcome = "save_fails" THEN w.dirs ELSE dirs
                        /\ UNCHANGED <<fs, written>>
                        /\ Raise("L162")
    /\ UNCHANGED <<argv, env, loop_i, src, src_square, bg, targets,
                   nsquare, call, ret>>

generate_web == WebFavicon \/ WebPng \/ WebMaskable

\* line 267
DispatchUe ==
    /\ pc = "L267"
    /\ Goto(IF S_ue \in targets THEN "L177" ELSE "L270")
    /\ UNCHANGED <<argv, env, loop_i, fs, dirs, heap, src, src_square, bg, targets,
                   written, maskable, nsquare, call, ret>>

\* line 177
UeWindowsIco ==
    /\ WriteIcoStep("L177", <<"ue", "windows", "icon.ico">>,
                    <<16, 24, 32, 48, 64, 128, 256>>)
    /\ UNCHANGED <<argv, env, loop_i, src, src_square, bg, targets,
                   maskable, nsquare, call, ret>>

iconset_dir == <<"ue", "mac", "AppIcon.iconset">>

\* lines 180-181
UeMkIconset ==
    /\ pc = "L181"
    /\ \E outcome \in {"ok", "mkdir_fails"} :
         IF outcome = "ok"
         THEN /\ dirs' = MkParents(dirs, iconset_dir) \cup {iconset_dir}
              /\ loop_i' = 1
              /\ Goto(NextPc("L181"))
         ELSE UNCHANGED <<dirs, loop_i>> /\ Raise("L181")
    /\ UNCHANGED <<argv, env, fs, heap, src, src_square, bg, targets,
                   written, maskable, nsquare, call, ret>>

\* faulty variant: icon_32x32@2x.png listed at 32 instead of 64
mac_entries_typo ==
    << <<"icon_16x16.png", 16>>,     <<"icon_16x16@2x.png", 32>>,
       <<"icon_32x32.png", 32>>,     <<"icon_32x32@2x.png", 32>>,
       <<"icon_128x128.png", 128>>,  <<"icon_128x128@2x.png", 256>>,
       <<"icon_256x256.png", 256>>,  <<"icon_256x256@2x.png", 512>>,
       <<"icon_512x512.png", 512>>,  <<"icon_512x512@2x.png", 1024>> >>

\* lines 184-195
mac_entries ==
    << <<"icon_16x16.png", 16>>,     <<"icon_16x16@2x.png", 32>>,
       <<"icon_32x32.png", 32>>,     <<"icon_32x32@2x.png", 64>>,
       <<"icon_128x128.png", 128>>,  <<"icon_128x128@2x.png", 256>>,
       <<"icon_256x256.png", 256>>,  <<"icon_256x256@2x.png", 512>>,
       <<"icon_512x512.png", 512>>,  <<"icon_512x512@2x.png", 1024>> >>

\* lines 196-197, one iteration
UeMacPng ==
    /\ pc = "L197" /\ loop_i \in 1..Len(mac_entries)
    /\ WritePngStep("L197", Append(iconset_dir, mac_entries[loop_i][1]),
                    mac_entries[loop_i][2],
                    IF loop_i < Len(mac_entries) THEN "L197" ELSE NextPc("L197"))
    /\ loop_i' = IF pc' = "L197" /\ loop_i < Len(mac_entries) THEN loop_i + 1 ELSE 0
    /\ UNCHANGED <<argv, env, src, src_square, bg, targets,
                   maskable, nsquare, call, ret>>

linux_pngs ==
    ("L200" :> [name |-> "icon-256.png", size |-> 256]) @@
    ("L201" :> [name |-> "icon-512.png", size |-> 512])

\* lines 200, 201
UeLinuxPng ==
    /\ pc \in DOMAIN linux_pngs
    /\ WritePngStep(pc, <<"ue", "linux", linux_pngs[pc].name>>,
                    linux_pngs[pc].size, NextPc(pc))
    /\ UNCHANGED <<argv, env, loop_i, src, src_square, bg, targets,
                   maskable, nsquare, call, ret>>

generate_ue == UeWindowsIco \/ UeMkIconset \/ UeMacPng \/ UeLinuxPng

\* line 270, and "raise SystemExit(main())" of line 274
Return0 ==
    /\ pc = "L270"
    /\ pc' = "exit" /\ exit_code' = 0
    /\ UNCHANGED <<argv, env, loop_i, fs, dirs, heap, src, src_square, bg, targets,
                   written, maskable, nsquare, failed_at, call, ret>>

main ==
    \/ MkOutDir \/ ParseTargets \/ ParseBackground \/ LoadImage \/ EnsureSquare
    \/ DispatchWeb \/ generate_web \/ DispatchUe \/ generate_ue \/ Return0

----------------------------------------------------------------------------
(* The runs of main                                                        *)

TargetInputs ==
    { <<"w","e","b">>,
      <<"u","e">>,
      <<"w","e","b",",","u","e">>,
      <<" ","U","E"," ",","," ","W","e","b">>,
      <<>>,
      <<"b","o","g","u","s">>,
      <<"w","e","b",",","b","o","g","u","s">> }

\* the values of --targets that name something other than web or ue
BogusTargetInputs ==
    { <<"b","o","g","u","s">>, <<"w","e","b",",","b","o","g","u","s">> }

BackgroundInputs ==
    { <<"#","0","0","0","0","0","0">>,
      <<"#","f","f","f","f","f","f","0","0">>,
      <<"#","1","2">>,
      <<"#","g","g","0","0","0","0">> }

InvalidBackgroundInputs ==
    { <<"#","1","2">>, <<"#","g","g","0","0","0","0">> }

PngSuffix == <<".","p","n","g">>

SvgSuffix == <<".","S","V","G">>

\* the input file and whether cairosvg can be imported
Sources ==
    { [cairosvg |-> FALSE,
       file |-> [suffix |-> PngSuffix, decodes |-> TRUE, w |-> 1024, h |-> 1024, pat |-> "opaque"]],
      [cairosvg |-> FALSE,
       file |-> [suffix |-> PngSuffix, decodes |-> TRUE, w |-> 512, h |-> 512, pat |-> "ring"]],
      [cairosvg |-> FALSE,
       file |-> [suffix |-> PngSuffix, decodes |-> TRUE, w |-> 800, h |-> 600, pat |-> "half"]],
      [cairosvg |-> TRUE,
       file |-> [suffix |-> PngSuffix, decodes |-> TRUE, w |-> 600, h |-> 801, pat |-> "clear"]],
      [cairosvg |-> TRUE,
       file |-> [suffix |-> SvgSuffix, decodes |-> TRUE, w |-> 1024, h |-> 1024, pat |-> "ring"]],
      [cairosvg |-> FALSE,
       file |-> [suffix |-> SvgSuffix, decodes |-> TRUE, w |-> 1024, h |-> 1024, pat |-> "ring"]],
      [cairosvg |-> FALSE,
       file |-> [suffix |-> PngSuffix, decodes |-> FALSE, w |-> 0, h |-> 0, pat |-> ""]] }

\* --maskable-scale in thousandths
MaskableScales == {50, 800, 999, 2000}

OldFile(fmt, size) ==
    [fmt |-> fmt, sizes |-> {size}, square |-> TRUE, from |-> 0, by |-> "before"]

\* the --out tree before the run: absent, or left by an earlier run
Trees ==
    { [fs0 |-> NoFiles, dirs0 |-> {}],
      [fs0 |-> (<<"old.txt">> :> OldFile("TXT", 0)) @@
               (<<"icon-512.png">> :> OldFile("PNG", 64)) @@
               (<<"ue", "windows", "icon.ico">> :> OldFile("ICO", 16)) @@
               (<<"ue", "mac", "AppIcon.iconset", "icon_old.png">> :> OldFile("PNG", 8)),
       dirs0 |-> {<<>>, <<"ue">>, <<"ue", "windows">>, <<"ue", "mac">>,
                  <<"ue", "mac", "AppIcon.iconset">>}] }

Init ==
    /\ pc = "L238"
    /\ argv \in [targets : TargetInputs, no_pad : BOOLEAN,
                 background : BackgroundInputs, maskable_scale : MaskableScales]
    /\ \E s \in Sources, t \in Trees :
         /\ env = [cairosvg |-> s.cairosvg, file |-> s.file,
                   fs0 |-> t.fs0, dirs0 |-> t.dirs0]
         /\ fs = t.fs0 /\ dirs = t.dirs0
    /\ loop_i = 0 /\ heap = NoHeap /\ src = 0 /\ src_square = 0
    /\ bg = <<>> /\ targets = {} /\ exit_code = -1
    /\ written = <<>> /\ maskable = <<>> /\ nsquare = 0 /\ failed_at = ""
    /\ call = [fn |-> "main"] /\ ret = <<>>

Next == main

Spec == Init /\ [][Next]_vars

----------------------------------------------------------------------------
(* Claims about the runs of main                                           *)

Succeeded == pc = "exit" /\ exit_code = 0

Written == {written[i] : i \in 1..Len(written)}

\* the files directly inside directory dir
FilesIn(f, dir) ==
    {q \in DOMAIN f : Len(q) = Len(dir) + 1 /\ SubSeq(q, 1, Len(dir)) = dir}

WebOrder ==
    << <<"favicon.ico">>, <<"apple-touch-icon.png">>, <<"icon-192.png">>,
       <<"icon-512.png">>, <<"icon-maskable-512.png">> >>

WebPaths == {WebOrder[i] : i \in 1..Len(WebOrder)}

\* the ten iconset names with the size each must have
IconsetNames ==
    << "icon_16x16.png", "icon_16x16@2x.png", "icon_32x32.png", "icon_32x32@2x.png",
       "icon_128x128.png", "icon_128x128@2x.png", "icon_256x256.png",
       "icon_256x256@2x.png", "icon_512x512.png", "icon_512x512@2x.png" >>

IconsetSizes == <<16, 32, 32, 64, 128, 256, 256, 512, 512, 1024>>

UeOrder ==
    << <<"ue", "windows", "icon.ico">> >>
    \o [i \in 1..10 |-> <<"ue", "mac", "AppIcon.iconset", IconsetNames[i]>>]
    \o << <<"ue", "linux", "icon-256.png">>, <<"ue", "linux", "icon-512.png">> >>

ExpectedWrites(t) ==
    (IF S_web \in t THEN WebOrder ELSE <<>>) \o (IF S_ue \in t THEN UeOrder ELSE <<>>)

IsPng(f, path, size) ==
    /\ path \in DOMAIN f
    /\ f[path].fmt = "PNG" /\ f[path].sizes = {size} /\ f[path].square
    /\ f[path].by = "run"

\* C1 as stated: after a successful run with --targets web on a square
\* source, the files present under the output directory are exactly the five
\* web files, no engine-packaging file is written, icon-512.png is 512x512.
C1_WebFilesExactly ==
    (Succeeded /\ targets = {S_web} /\ env.file.w = env.file.h) =>
        /\ DOMAIN fs = WebPaths
        /\ \A q \in Written : q[1] # "ue"
        /\ IsPng(fs, <<"icon-512.png">>, 512)

\* C1 (amended): after a successful run with --targets web, the files the
\* run wrote are exactly the five web files, each once, none of the
\* engine-packaging target; every file that was already under the output
\* directory and is not one of the five is still there, untouched, so the
\* directory holds exactly the five when it held no file before the run;
\* icon-512.png is a 512x512 PNG.
C1_WebFilesWritten ==
    (Succeeded /\ targets = {S_web}) =>
        /\ written = WebOrder
        /\ DOMAIN fs = DOMAIN env.fs0 \cup WebPaths
        /\ \A q \in DOMAIN fs \ WebPaths : fs[q] = env.fs0[q]
        /\ \A q \in WebPaths : fs[q].by = "run"
        /\ DOMAIN env.fs0 = {} => DOMAIN fs = WebPaths
        /\ IsPng(fs, <<"icon-512.png">>, 512)
        /\ IsPng(fs, <<"apple-touch-icon.png">>, 180)
        /\ IsPng(fs, <<"icon-192.png">>, 192)
        /\ IsPng(fs, <<"icon-maskable-512.png">>, 512)
        /\ fs[<<"favicon.ico">>].fmt = "ICO" /\ fs[<<"favicon.ico">>].sizes = {16, 32, 48}

\* a 1024x1024 source, --targets web, a fresh output directory, run complete
C1_Witness ==
    /\ Succeeded /\ targets = {S_web}
    /\ env.file.w = 1024 /\ env.file.h = 1024 /\ env.fs0 = NoFiles
    /\ DOMAIN fs = WebPaths

\* C2 as stated: after a successful run with --targets ue (into a fresh
\* output directory), mac/AppIcon.iconset/ rooted at --out contains exactly
\* the ten fixed-name PNGs at sizes 16, 32, 32, 64, 128, 256, 256, 512, 512,
\* 1024.
C2_IconsetUnderOut ==
    (Succeeded /\ S_ue \in targets /\ env.fs0 = NoFiles) =>
        /\ FilesIn(fs, <<"mac", "AppIcon.iconset">>)
             = {<<"mac", "AppIcon.iconset", IconsetNames[i]>> : i \in 1..10}
        /\ \A i \in 1..10 :
             IsPng(fs, <<"mac", "AppIcon.iconset", IconsetNames[i]>>, IconsetSizes[i])

\* C2 (amended): after a successful run with --targets ue, the run has
\* written exactly the ten fixed-name PNGs into ue/mac/AppIcon.iconset/
\* rooted at --out, in the order and at the sizes 16, 32, 32, 64, 128, 256,
\* 256, 512, 512, 1024; the directory holds those ten and whatever other
\* files it held before the run, and nothing is written to mac/ directly
\* under --out.
C2_IconsetUnderUe ==
    (Succeeded /\ S_ue \in targets) =>
        LET dir == <<"ue", "mac", "AppIcon.iconset">>
            ten == {Append(dir, IconsetNames[i]) : i \in 1..10}
        IN  /\ dir \in dirs
            /\ {q \in Written : Len(q) = 4 /\ SubSeq(q, 1, 3) = dir} = ten
            /\ FilesIn(fs, dir) = FilesIn(env.fs0, dir) \cup ten
            /\ \A q \in FilesIn(fs, dir) \ ten : fs[q] = env.fs0[q]
            /\ \A i \in 1..10 : IsPng(fs, Append(dir, IconsetNames[i]), IconsetSizes[i])
            /\ \A q \in Written : q[1] # "mac"
            /\ FilesIn(fs, <<"mac", "AppIcon.iconset">>) = {}

\* --targets ue alone into a fresh directory, run complete, the @2x entry of
\* 512 written at 1024
C2_Witness ==
    /\ Succeeded /\ targets = {S_ue} /\ env.fs0 = NoFiles
    /\ IsPng(fs, <<"ue", "mac", "AppIcon.iconset", "icon_512x512@2x.png">>, 1024)
    /\ Cardinality(FilesIn(fs, <<"ue", "mac", "AppIcon.iconset">>)) = 10

\* C3 as stated: with an unknown name in --targets the run ends with a
\* non-zero exit, no file has been written, and target validation precedes
\* every filesystem write of the run (files and directories are as before).
C3_ValidationBeforeAnyWrite ==
    (argv.targets \in BogusTargetInputs /\ pc = "exit") =>
        /\ exit_code # 0
        /\ written = <<>> /\ fs = env.fs0
        /\ dirs = env.dirs0

\* C3 (amended): with an unknown name in --targets the run never gets past
\* target validation, ends with a non-zero exit, and no file has been
\* written or changed; the only filesystem write that precedes validation is
\* the creation of the --out directory (line 238), which is in place when
\* validation fails.
C3_UnknownTargetAborts ==
    argv.targets \in BogusTargetInputs =>
        /\ pc \in {"L238", "L240", "exit"}
        /\ written = <<>> /\ fs = env.fs0
        /\ pc = "exit" =>
             /\ exit_code # 0
             /\ failed_at \in {"L238", "L240"}
             /\ failed_at = "L240" => dirs = env.dirs0 \cup {<<>>}
             /\ failed_at = "L238" => dirs = env.dirs0

\* --targets web,bogus with no output directory yet: the run has failed at
\* target validation and has created the directory
C3_Witness ==
    /\ pc = "exit" /\ failed_at = "L240" /\ exit_code = 1
    /\ argv.targets = <<"w","e","b",",","b","o","g","u","s">>
    /\ env.dirs0 = {} /\ dirs = {<<>>}

IsPrefix(a, b) == Len(a) <= Len(b) /\ SubSeq(b, 1, Len(a)) = a

\* C8: a run of main is one linear pass: a failing step ends the run at once
\* with a non-zero exit, nothing runs after the exit, no file is written
\* twice, the files written before the failure stay in place, and exit code
\* 0 is returned only when every step of every requested target has
\* completed.
C8_SinglePass ==
    /\ [](failed_at # "" => (pc = "exit" /\ exit_code \notin {0, -1}))
    /\ [](pc = "exit" => (exit_code # -1 /\ (exit_code # 0 <=> failed_at # "")))
    /\ [](exit_code = 0 => (pc = "exit" /\ written = ExpectedWrites(targets)))
    /\ [](\A i \in 1..Len(written) :
            /\ written[i] \in DOMAIN fs /\ fs[written[i]].by = "run"
            /\ \A j \in 1..Len(written) : written[i] = written[j] => i = j)
    /\ [](IsPrefix(written, ExpectedWrites(targets)))
    /\ [][/\ pc # "exit"
          /\ IsPrefix(written, written')
          /\ \A q \in DOMAIN fs : q \in DOMAIN fs'
          /\ \A q \in Written : fs'[q] = fs[q]]_vars

\* the write of icon-512.png failed: three files are in place, the run is
\* over with exit status 1
C8_Witness ==
    /\ pc = "exit" /\ failed_at = "L160" /\ exit_code = 1
    /\ Len(written) = 3
    /\ <<"icon-192.png">> \in DOMAIN fs /\ <<"icon-maskable-512.png">> \notin DOMAIN fs

\* C9: once derived, the square-normalised buffer has width = height, was
\* derived by the single _ensure_square call of the run, and no later step
\* changes which object it is, its dimensions or its pixels, including the
\* steps where _resize returns the buffer itself and where
\* _fit_with_padding composites it onto a new canvas.
C9_SquareBufferReadOnly ==
    /\ [](src_square # 0 =>
            /\ src_square \in DOMAIN heap
            /\ heap[src_square].w = heap[src_square].h
            /\ nsquare = 1)
    /\ [](src_square = 0 => (nsquare = 0 /\ written = <<>> /\ maskable = <<>>))
    /\ [][src_square # 0 =>
            /\ src_square' = src_square
            /\ heap'[src_square] = heap[src_square]
            /\ nsquare' = nsquare]_vars

\* a 512x512 source: _resize returned the buffer itself for icon-512.png and
\* for the maskable content (scale clamped to 1.0), which was composited
\* onto a new canvas
C9_Witness ==
    /\ Succeeded /\ S_web \in targets
    /\ fs[<<"icon-512.png">>].from = src_square
    /\ maskable[1].inner = 512
    /\ maskable[1].img.sub[2] = heap[src_square]
    /\ fs[<<"icon-maskable-512.png">>].from # src_square

LoadFails ==
    \/ ~env.file.decodes
    \/ (_is_svg(env.file.suffix) /\ ~env.cairosvg)

\* C10: the colour is parsed and the source loaded and square-normalised
\* before the first output file is written; a run that fails on an invalid
\* colour, a missing SVG rasteriser or an unreadable input writes no output
\* file, its only filesystem effect being the creation of the --out
\* directory; with both targets every web output precedes every
\* engine-packaging output.
C10_Ordering ==
    /\ written # <<>> => (bg # <<>> /\ src # 0 /\ src_square # 0)
    /\ failed_at \in {"L261", "L262"} =>
         (written = <<>> /\ fs = env.fs0 /\ dirs = env.dirs0 \cup {<<>>})
    /\ (argv.background \in InvalidBackgroundInputs \/ LoadFails) =>
         /\ written = <<>> /\ fs = env.fs0
         /\ pc \in {"L238", "L240", "L261", "L262", "exit"}
         /\ pc = "exit" => exit_code # 0
    /\ \A i \in 1..Len(written) : \A j \in 1..Len(written) :
         (written[i][1] = "ue" /\ written[j][1] # "ue") => j < i

\* an SVG input without cairosvg: the run failed at the load, after creating
\* the output directory and before writing any file
C10_Witness ==
    /\ pc = "exit" /\ failed_at = "L262" /\ exit_code = 1
    /\ _is_svg(env.file.suffix) /\ ~env.cairosvg
    /\ env.dirs0 = {} /\ dirs = {<<>>} /\ fs = NoFiles

=============================================================================
